---- MODULE Spec2Model ----
(***************************************************************************)
(* terminal-invaders (src/src/main.rs): the grid map, the breadth-first    *)
(* search pf_search that yields one step toward the nearest Destination,  *)
(* the random walk pf_random, GameState::advance, Map::new and the event   *)
(* loop of main.                                                           *)
(*                                                                         *)
(* A position Vector2<usize> is the pair <<x, y>> (0-based, as in the     *)
(* code).  The DMatrix grid is the sequence of its rows, so the square at *)
(* (x, y) is grid[y + 1][x + 1].  Option<T> is a sequence of length <= 1: *)
(* None is <<>> and Some(v) is <<v>>.  A &str is the sequence of its       *)
(* characters.  An Event is <<"Tick">> or <<"Input", key>>.               *)
(***************************************************************************)
EXTENDS Integers, Sequences, FiniteSets, TLC

VARIABLES
    map,       \* GameState.map: the grid
    enemies,   \* GameState.enemies
    start,     \* the enemies the GameState was built with
    panicked,  \* a panic has ended the process
    desc,      \* the description handed to Map::new
    pc,        \* where main is: "new" (before Map::new), "loop", "done"
    event,     \* the last value of events.next(), None before the first
    ticks,     \* the number of Event::Tick handled by the loop
    search     \* the locals of a running pf_search, None when none runs

vars == <<map, enemies, start, panicked, desc, pc, event, ticks, search>>

\* What the rest of main holds while the game alone is looked at: the
\* description is consumed, the loop runs, no event was read.
main_idle == desc = <<>> /\ pc = "loop" /\ event = <<>> /\ ticks = 0

main_vars == <<desc, pc, event, ticks>>

\* ------------------------------------------------------------------ bounds
\* Largest number of cells (w * h) of a generated map.
MaxCells == 6
\* Largest number of cells of a generated map that carries several agents.
MaxGameCells == 4
\* Largest number of agents of a generated game.
MaxAgents == 2
\* Largest number of agents put on a scenario map.
MaxScenarioAgents == 3
\* Largest number of characters of a generated map description.
MaxDesc == 5
\* The largest width and height of the blank grids the neighbour functions
\* are applied to.
MaxSide == 5
\* The largest number of Event::Tick the loop of main is followed for.
MaxTicks == 15
\* How far outside the grid in_bounds is asked.
Margin == 2
\* The largest number of cells of the grids pf_search is followed on pass
\* by pass.
MaxSearchCells == 4

\* ------------------------------------------------------------- enum Square
Empty == "Empty"
Wall == "Wall"
SpawnPoint == "SpawnPoint"
Destination == "Destination"
Square == {Empty, Wall, SpawnPoint, Destination}

None == <<>>
Some(v) == <<v>>

\* -------------------------------------------------------------- struct Map
\* The grid without rows is the 0 x 0 grid (Map::new of a description
\* without a non-empty line): it has no columns.
ncols(m) == IF m = <<>> THEN 0 ELSE Len(m[1])
nrows(m) == Len(m)

\* impl Index<Vector2<usize>> for Map: grid.index((i.y, i.x))
At(m, i) == m[i[2] + 1][i[1] + 1]

\* Mutant: the offsets in another order (down, left, up, right).
NEIGHBOR4_turned == << <<0, 1>>, <<-1, 0>>, <<0, -1>>, <<1, 0>> >>

NEIGHBOR4 == << <<0, 1>>, <<1, 0>>, <<-1, 0>>, <<0, -1>> >>

NEIGHBOR8 == << <<0, 1>>, <<1, 0>>, <<0, -1>>, <<-1, 0>>,
                <<1, 1>>, <<1, -1>>, <<-1, -1>>, <<-1, -1>> >>

\* Mutant: the lower bounds are strict, column 0 and row 0 are left out.
in_bounds_strict(m, s) ==
    s[1] > 0 /\ s[2] > 0 /\ s[1] < ncols(m) /\ s[2] < nrows(m)

in_bounds(m, s) ==
    s[1] >= 0 /\ s[2] >= 0 /\ s[1] < ncols(m) /\ s[2] < nrows(m)

\* offsets.iter().map(s + t).filter(in_bounds): the order of offsets is kept.
neighbors_offsets(m, s, offsets) ==
    SelectSeq([k \in 1..Len(offsets) |->
                   <<s[1] + offsets[k][1], s[2] + offsets[k][2]>>],
              LAMBDA t : in_bounds(m, t))

neighbors_4(m, s) == neighbors_offsets(m, s, NEIGHBOR4)

neighbors_8(m, s) == neighbors_offsets(m, s, NEIGHBOR8)

\* The set of the elements of a sequence.
Range(seq) == {seq[k] : k \in 1..Len(seq)}

\* ---------------------------------------------------------------- pf_random
\* Mutant: the Destination cells are candidates of the random walk too.
random_candidates_open(m, s) ==
    SelectSeq(neighbors_4(m, s), LAMBDA t : At(m, t) \in {Empty, Destination})

\* The candidates of IteratorRandom::choose: the Empty 4-neighbours.
random_candidates(m, s) ==
    SelectSeq(neighbors_4(m, s), LAMBDA t : At(m, t) = Empty)

\* Every value choose(&mut rng).unwrap_or(s) can return.
pf_random(m, s) ==
    IF random_candidates(m, s) = <<>>
    THEN {s}
    ELSE Range(random_candidates(m, s))

\* --------------------------------------------------------------- first_move
RECURSIVE first_move_loop(_, _, _)
first_move_loop(parents, cur, prev) ==
    IF cur \in DOMAIN parents /\ parents[cur] # None
    THEN first_move_loop(parents, parents[cur][1], cur)
    ELSE prev

\* Mutant: the cell the search found is returned, not the first step to it.
first_move_end(parents, end) == end

\* Mutant: the loop's cur (the start, whose parent is None) is returned, not
\* prev.
first_move_cur(parents, end) == CHOOSE c \in DOMAIN parents : parents[c] = None

first_move(parents, end) == first_move_loop(parents, end, end)

\* ---------------------------------------------------------------- pf_search
\* Mutant: the start is handed to the loop as its own predecessor.
search_init_self(s) ==
    [parents |-> <<>>, q |-> <<>>, cur |-> s, parent |-> Some(s), panic |-> FALSE]

\* The locals of pf_search before the loop.
search_init(s) ==
    [parents |-> <<>>, q |-> <<>>, cur |-> s, parent |-> None, panic |-> FALSE]

\* Mutant: the filter forgets the square of the neighbour.
search_filter_any(m, parents, t) == t \notin DOMAIN parents

\* The filter of the neighbours that are appended to the queue.
search_filter(m, parents, t) ==
    (At(m, t) = Empty \/ At(m, t) = Destination) /\ t \notin DOMAIN parents

\* HashMap::insert: a present key gets the new value.
insert(parents, k, v) ==
    [p \in (DOMAIN parents) \cup {k} |-> IF p = k THEN v ELSE parents[p]]

\* One pass through the body of the while loop; pop_front().unwrap() panics
\* on the empty queue.
search_body(m, st) ==
    LET parents1 == insert(st.parents, st.cur, st.parent)
        found == SelectSeq(neighbors_4(m, st.cur),
                           LAMBDA t : search_filter(m, parents1, t))
        q1 == st.q \o [k \in 1..Len(found) |-> <<found[k], Some(st.cur)>>]
    IN  IF q1 = <<>>
        THEN [st EXCEPT !.parents = parents1, !.panic = TRUE]
        ELSE [parents |-> parents1, q |-> Tail(q1), cur |-> Head(q1)[1],
              parent |-> Head(q1)[2], panic |-> FALSE]

\* The first half of a pass: parents.insert and q.extend.
search_extend(m, st) ==
    LET parents1 == insert(st.parents, st.cur, st.parent)
        found == SelectSeq(neighbors_4(m, st.cur),
                           LAMBDA t : search_filter(m, parents1, t))
    IN  [st EXCEPT !.parents = parents1,
                   !.q = st.q \o [k \in 1..Len(found) |->
                                     <<found[k], Some(st.cur)>>]]

\* The second half: q.pop_front().unwrap() and the two assignments, so that
\* search_body(m, st) = search_pop(search_extend(m, st)).
search_pop(st) ==
    IF st.q = <<>>
    THEN [st EXCEPT !.panic = TRUE]
    ELSE [st EXCEPT !.q = Tail(st.q), !.cur = Head(st.q)[1],
                    !.parent = Head(st.q)[2]]

\* The while loop: it ends on a Destination, or with the panic.  (The state
\* after a pass is bound as the element of a singleton set, so that it is
\* evaluated once and not once for every use.)
RECURSIVE search_loop(_, _)
search_loop(m, st) ==
    IF st.panic \/ At(m, st.cur) = Destination
    THEN st
    ELSE CHOOSE r \in {search_loop(m, nx) : nx \in {search_body(m, st)}} : TRUE

\* What pf_search makes of the locals st the loop ends with: the panic, or
\* the last insert and first_move.
search_result(s, st) ==
    IF st.panic
    THEN [panic |-> TRUE, pos |-> s]
    ELSE [panic |-> FALSE,
          pos |-> first_move(insert(st.parents, st.cur, st.parent), st.cur)]

\* Mutant: a do-while loop, the start is expanded before it is tested.
pf_search_dowhile(m, s) ==
    CHOOSE r \in {search_result(s, st) :
                     st \in {search_loop(m, search_body(m, search_init(s)))}} : TRUE

\* Mutant: on the exhausted queue the start is returned without an error.
pf_search_silent(m, s) ==
    CHOOSE r \in {[search_result(s, st) EXCEPT !.panic = FALSE] :
                     st \in {search_loop(m, search_init(s))}} : TRUE

\* The outcome of pf_search(m, s): [panic |-> TRUE] when unwrap() panics,
\* else the returned position.
pf_search(m, s) ==
    CHOOSE r \in {search_result(s, st) : st \in {search_loop(m, search_init(s))}} : TRUE

\* --------------------------------------------------------- GameState::advance
\* The loop over enemies.iter_mut() from index k on: a panic of pf_search
\* unwinds out of advance and leaves the enemies after it as they were.
RECURSIVE advance_from(_, _, _)
advance_from(m, es, k) ==
    IF k > Len(es)
    THEN [enemies |-> es, panic |-> FALSE]
    ELSE CHOOSE out \in
             {IF r.panic
              THEN [enemies |-> es, panic |-> TRUE]
              ELSE advance_from(m, [es EXCEPT ![k] = r.pos], k + 1) :
                 r \in {pf_search(m, es[k])}} : TRUE

\* Mutant: the loop works on copies of the positions (enemies.iter()), so
\* no step is stored.
advance_copy(m, es) ==
    [enemies |-> es, panic |-> advance_from(m, es, 1).panic]

advance(m, es) == advance_from(m, es, 1)

\* ------------------------------------------------------------------ Map::new
\* Square::fr_char; any other character panics.
fr_char(c) ==
    CASE c = " " -> Empty
      [] c = "#" -> Wall
      [] c = "^" -> SpawnPoint
      [] c = "$" -> Destination

\* str::split('\n'): the pieces between the newlines, the empty ones too.
RECURSIVE split_from(_, _, _)
split_from(str, k, piece) ==
    IF k > Len(str) THEN <<piece>>
    ELSE IF str[k] = "\n" THEN <<piece>> \o split_from(str, k + 1, <<>>)
    ELSE split_from(str, k + 1, Append(piece, str[k]))

split(str) == split_from(str, 1, <<>>)

\* desc.split('\n').filter(|l| l.len() > 0).map(|l| l.chars().map(fr_char))
lines_of(str) ==
    LET kept == SelectSeq(split(str), LAMBDA l : Len(l) > 0)
    IN  [y \in 1..Len(kept) |-> [x \in 1..Len(kept[y]) |-> fr_char(kept[y][x])]]

\* fold((0, 0), |(w, h), l| (max(w, l.count()), h + 1)): the pair <<w, h>>.
RECURSIVE fold_wh(_, _, _)
fold_wh(lines, k, wh) ==
    IF k > Len(lines) THEN wh
    ELSE fold_wh(lines, k + 1,
                 <<IF Len(lines[k]) > wh[1] THEN Len(lines[k]) ELSE wh[1], wh[2] + 1>>)

\* l.chain(iter::repeat(Square::Empty).take(w - l.count()))
pad(l, w) == l \o [k \in 1..(w - Len(l)) |-> Empty]

\* Iterator::flatten
RECURSIVE flatten_from(_, _)
flatten_from(ls, k) ==
    IF k > Len(ls) THEN <<>> ELSE ls[k] \o flatten_from(ls, k + 1)

\* DMatrix::from_iterator(nrows, ncols, iter): the storage is column-major,
\* element (i, j) is data[j * nrows + i + 1].
from_iterator(nr, nc, iter) ==
    [nrows |-> nr, ncols |-> nc, data |-> SubSeq(iter, 1, nr * nc)]

elem(mx, i, j) == mx.data[j * mx.nrows + i + 1]

\* Mutant: the matrix is left as from_iterator delivers it.
transpose_forgotten(mx) == mx

\* DMatrix::transpose
transpose(mx) ==
    [nrows |-> mx.ncols, ncols |-> mx.nrows,
     data |-> [k \in 1..(mx.nrows * mx.ncols) |->
                  elem(mx, (k - 1) \div mx.ncols, (k - 1) % mx.ncols)]]

\* The matrix as the sequence of its rows (the form of the variable map).
rows_of(mx) ==
    [y \in 1..mx.nrows |-> [x \in 1..mx.ncols |-> elem(mx, y - 1, x - 1)]]

\* Map::new(desc)
Map_new(str) ==
    LET lines == lines_of(str)
        wh == fold_wh(lines, 1, <<0, 0>>)
        padded == [y \in 1..Len(lines) |-> pad(lines[y], wh[1])]
    IN  rows_of(transpose(from_iterator(wh[1], wh[2], flatten_from(padded, 1))))

\* ------------------------------------------------------------------- states
Cells(m) == {<<x, y>> : x \in 0..(ncols(m) - 1), y \in 0..(nrows(m) - 1)}

\* Every grid of w columns and h rows.
Grids(w, h) == [1..h -> [1..w -> Square]]

\* Every grid of at most n cells.
GridsUpTo(n) ==
    UNION {Grids(d[1], d[2]) : d \in {e \in (1..n) \X (1..n) : e[1] * e[2] <= n}}

\* One agent on any cell of any grid of at most MaxCells cells.
Init ==
    /\ map \in GridsUpTo(MaxCells)
    /\ \E p \in Cells(map) : enemies = <<p>>
    /\ start = enemies
    /\ panicked = FALSE
    /\ main_idle
    /\ search = None

\* Up to MaxAgents agents on any cells of any grid of at most MaxGameCells
\* cells; several agents may start on the same cell.
InitGame ==
    /\ map \in GridsUpTo(MaxGameCells)
    /\ \E n \in 1..MaxAgents : enemies \in [1..n -> Cells(map)]
    /\ start = enemies
    /\ panicked = FALSE
    /\ main_idle
    /\ search = None

\* Event::Tick => game_state.advance().  After a panic the process is gone.
Advance ==
    /\ ~panicked
    /\ LET r == advance(map, enemies)
       IN  /\ enemies' = r.enemies
           /\ panicked' = r.panic
    /\ UNCHANGED <<map, start, main_vars, search>>

\* The random-walk strategy applied to one agent: pf_random draws one of its
\* candidates.
RandomStep ==
    /\ ~panicked
    /\ \E i \in 1..Len(enemies) :
         \E t \in pf_random(map, enemies[i]) :
            enemies' = [enemies EXCEPT ![i] = t]
    /\ UNCHANGED <<map, start, panicked, main_vars, search>>

Next == Advance

Spec == Init /\ [][Next]_vars

GameSpec == InitGame /\ [][Next]_vars

\* The neighbour functions applied on the blank grids of up to MaxSide
\* columns and rows: a walker moves to any cell that neighbors_4 or
\* neighbors_8 yields for its cell.
BlankGrids(n) ==
    {[y \in 1..h |-> [x \in 1..w |-> Empty]] : w \in 1..n, h \in 1..n}

InitNeighbors ==
    /\ map \in BlankGrids(MaxSide)
    /\ enemies \in {<<p>> : p \in Cells(map)}
    /\ start = enemies
    /\ panicked = FALSE
    /\ main_idle
    /\ search = None

Neighbors4Step ==
    /\ \E t \in Range(neighbors_4(map, enemies[1])) : enemies' = <<t>>
    /\ UNCHANGED <<map, start, panicked, main_vars, search>>

Neighbors8Step ==
    /\ \E t \in Range(neighbors_8(map, enemies[1])) : enemies' = <<t>>
    /\ UNCHANGED <<map, start, panicked, main_vars, search>>

NextNeighbors == Neighbors4Step \/ Neighbors8Step

NeighborSpec == InitNeighbors /\ [][NextNeighbors]_vars

\* The characters of a map description.
MapChars == {" ", "#", "^", "$", "\n"}

\* Every description of at most n characters.
DescsUpTo(n) == UNION {[1..k -> MapChars] : k \in 0..n}

\* main before Map::new: any description of at most MaxDesc characters.
InitMap ==
    /\ desc \in DescsUpTo(MaxDesc)
    /\ map = <<>>
    /\ enemies = <<>>
    /\ start = <<>>
    /\ panicked = FALSE
    /\ pc = "new"
    /\ event = None
    /\ ticks = 0
    /\ search = None

\* map: Map::new(MAP) in the GameState literal.
NewMap ==
    /\ pc = "new"
    /\ ~panicked
    /\ map' = Map_new(desc)
    /\ pc' = "loop"
    /\ UNCHANGED <<enemies, start, panicked, desc, event, ticks, search>>

NextMap == NewMap

MapSpec == InitMap /\ [][NextMap]_vars

\* The map "^ #\n# $" of the end-to-end scenario (w = 3, h = 2).
E2EMap == <<<<SpawnPoint, Empty, Wall>>, <<Wall, Empty, Destination>>>>

ScenarioMaps == {E2EMap}

\* Up to MaxScenarioAgents agents on any cells of a scenario map.
InitScenario ==
    /\ map \in ScenarioMaps
    /\ \E n \in 1..MaxScenarioAgents : enemies \in [1..n -> Cells(map)]
    /\ start = enemies
    /\ panicked = FALSE
    /\ main_idle
    /\ search = None

\* Ticks keep coming (tick_rate: every 1000 ms), so advance is called again
\* and again.
ScenarioSpec == InitScenario /\ [][Next]_vars /\ WF_vars(Advance)

NextRandom == RandomStep

RandomSpec == Init /\ [][NextRandom]_vars

\* static MAP: the raw string starts and ends with a line break.
MAP ==
    <<"\n">> \o
    <<"#", "#", "#", " ", "#", "#", "#", "#", "#", "#", "#", "#",
      "#", "#", "#", "#", "#", "\n">> \o
    <<"#", "#", "#", " ", "#", "#", "#", "#", "#", "#", "#", "#",
      "#", "#", "#", "#", "#", "\n">> \o
    <<"#", "#", "#", " ", "#", "#", "#", "#", "#", "#", "#", "#",
      "#", "#", "#", "#", "#", "\n">> \o
    <<"#", "#", "#", " ", " ", " ", " ", " ", " ", " ", " ", " ",
      "#", "#", "#", "#", "#", "#", "#", "#", "#", "#", "#", "\n">> \o
    <<"#", "#", "#", "#", "#", "#", " ", "#", "#", "#", "#", " ",
      "#", "#", "#", "#", "#", "#", "#", "#", "#", "#", "#", "\n">> \o
    <<"#", "#", "#", "#", "#", "#", " ", "#", "#", "#", "#", " ",
      "#", "#", "#", "#", "#", "#", "#", "#", "#", "\n">> \o
    <<"#", "#", "#", "#", "#", "#", "$", "#", "#", "#", "#", "$",
      "#", "#", "#", "#", "#", "#", "#", "#", "#", "#", "#", "\n">>

\* Mutant: the two agents in the other order.
main_enemies_swapped == << <<3, 2>>, <<3, 0>> >>

\* enemies: vec![Vector2::new(3, 0), Vector2::new(3, 2)]
main_enemies == << <<3, 0>>, <<3, 2>> >>

\* The keys events.next() is taken to deliver; Key::Char('q') is the
\* exit_key.
Keys == {"q", "Q", "x", "\n", "Esc", "Left", "Up", "Ctrl-c"}

\* Mutant: every event drives advance, the keys too.
match_event_any(m, es, ev) ==
    CHOOSE out \in {[enemies |-> r.enemies, panic |-> r.panic,
                     break |-> ev[1] = "Input" /\ ev[2] = "q"] :
                        r \in {advance(m, es)}} : TRUE

\* match events.next()?: the enemies after the arm, whether advance has
\* panicked, and whether the arm breaks out of the loop.
match_event(m, es, ev) ==
    IF ev[1] = "Input"
    THEN [enemies |-> es, panic |-> FALSE, break |-> ev[2] = "q"]
    ELSE CHOOSE out \in {[enemies |-> r.enemies, panic |-> r.panic,
                          break |-> FALSE] : r \in {advance(m, es)}} : TRUE

\* main: before game_state is built.
InitMain ==
    /\ desc = MAP
    /\ map = <<>>
    /\ enemies = <<>>
    /\ start = <<>>
    /\ panicked = FALSE
    /\ pc = "new"
    /\ event = None
    /\ ticks = 0
    /\ search = None

\* let mut game_state = GameState { enemies: vec![..], map: Map::new(MAP) }
NewGame ==
    /\ pc = "new"
    /\ map' = Map_new(desc)
    /\ enemies' = main_enemies
    /\ start' = main_enemies
    /\ pc' = "loop"
    /\ UNCHANGED <<panicked, desc, event, ticks, search>>

\* One turn of the loop with the event ev.
Turn(ev) ==
    /\ pc = "loop"
    /\ ~panicked
    /\ event' = ev
    /\ LET out == match_event(map, enemies, ev)
       IN  /\ enemies' = out.enemies
           /\ panicked' = out.panic
           /\ pc' = IF out.break THEN "done" ELSE "loop"
    /\ UNCHANGED <<map, start, desc, search>>

\* events.next() is Event::Tick.
Tick ==
    /\ ticks < MaxTicks
    /\ ticks' = ticks + 1
    /\ Turn(<<"Tick">>)

\* events.next() is Event::Input(key).
Input ==
    /\ ticks' = ticks
    /\ \E key \in Keys : Turn(<<"Input", key>>)

NextMain == NewGame \/ Tick \/ Input

MainSpec == InitMain /\ [][NextMain]_vars

\* pf_search followed statement by statement, for one agent on any cell of
\* any grid of at most MaxSearchCells cells.  search holds the locals st and
\* the place at: "while" before the test of the loop, "pop" between
\* q.extend and q.pop_front.  The steps are the call (the locals before the
\* loop), the two halves of a pass, and the end of the loop (the last
\* insert, first_move and the store through the &mut of advance, or the
\* panic of unwrap()).
InitSearch ==
    /\ map \in GridsUpTo(MaxSearchCells)
    /\ \E p \in Cells(map) : enemies = <<p>>
    /\ start = enemies
    /\ panicked = FALSE
    /\ main_idle
    /\ search = None

SearchCall ==
    /\ ~panicked
    /\ search = None
    /\ search' = Some([st |-> search_init(enemies[1]), at |-> "while"])
    /\ UNCHANGED <<map, enemies, start, panicked, main_vars>>

SearchExtend ==
    /\ search # None
    /\ search[1].at = "while"
    /\ ~search[1].st.panic
    /\ At(map, search[1].st.cur) # Destination
    /\ search' = Some([st |-> search_extend(map, search[1].st), at |-> "pop"])
    /\ UNCHANGED <<map, enemies, start, panicked, main_vars>>

SearchPop ==
    /\ search # None
    /\ search[1].at = "pop"
    /\ search' = Some([st |-> search_pop(search[1].st), at |-> "while"])
    /\ UNCHANGED <<map, enemies, start, panicked, main_vars>>

SearchReturn ==
    /\ search # None
    /\ search[1].at = "while"
    /\ search[1].st.panic \/ At(map, search[1].st.cur) = Destination
    /\ LET r == search_result(enemies[1], search[1].st)
       IN  /\ enemies' = <<r.pos>>
           /\ panicked' = r.panic
    /\ search' = None
    /\ UNCHANGED <<map, start, main_vars>>

NextSearch == SearchCall \/ SearchExtend \/ SearchPop \/ SearchReturn

\* The code of pf_search runs on without waiting for anything.
SearchSpec == InitSearch /\ [][NextSearch]_vars /\ WF_vars(NextSearch)

\* ------------------------------------------------- vocabulary of the claims
\* Two cells one 4-directional hop apart.
Hop(p, t) ==
    \/ p[1] = t[1] /\ (p[2] - t[2] = 1 \/ t[2] - p[2] = 1)
    \/ p[2] = t[2] /\ (p[1] - t[1] = 1 \/ t[1] - p[1] = 1)

Adjacent(m, p) == {t \in Cells(m) : Hop(p, t)}

\* The number of hops from a cell of `frontier` (d hops from the start) to
\* the nearest Destination, every cell after the start being Empty or that
\* Destination; Unreachable if there is none.
Unreachable == 0 - 1

RECURSIVE DistFrom(_, _, _, _)
DistFrom(m, frontier, seen, d) ==
    IF \E p \in frontier : At(m, p) = Destination
    THEN d
    ELSE LET nxt == {t \in UNION {Adjacent(m, p) : p \in frontier} :
                        t \notin seen /\ At(m, t) \in {Empty, Destination}}
         IN  IF nxt = {} THEN Unreachable
             ELSE DistFrom(m, nxt, seen \cup nxt, d + 1)

Dist(m, p) == DistFrom(m, {p}, {p}, 0)

\* pf_search applied n times from p: the sequence of the n outcomes.
RECURSIVE SearchPath(_, _, _)
SearchPath(m, p, n) ==
    IF n = 0 THEN <<>>
    ELSE LET r == pf_search(m, p)
         IN  <<r>> \o (IF r.panic THEN <<>> ELSE SearchPath(m, r.pos, n - 1))

\* --------------------------------------------------------------------- C1
\* C1: from a cell whose nearest Destination is k >= 1 hops away through
\* Empty cells, k applications of pf_search end on a Destination, no
\* position on the way is a Wall, and every application brings the agent
\* exactly one hop nearer to the nearest Destination.
C1_BFSOptimality ==
    \A i \in 1..Len(enemies) :
        LET k == Dist(map, enemies[i])
            path == SearchPath(map, enemies[i], k)
        IN  k >= 1 =>
              /\ Len(path) = k
              /\ \A j \in 1..k :
                    /\ ~path[j].panic
                    /\ path[j].pos \in Cells(map)
                    /\ At(map, path[j].pos) # Wall
                    /\ Dist(map, path[j].pos) = k - j
              /\ At(map, path[k].pos) = Destination

\* An agent that started three or more hops from its nearest Destination
\* stands on a Destination.
C1_Witness ==
    /\ Len(start) = 1
    /\ Dist(map, start[1]) >= 3
    /\ At(map, enemies[1]) = Destination

\* --------------------------------------------------------------------- C2
\* The reference breadth-first search: a cell gets its predecessor when it is
\* first discovered and keeps it; neighbours in the order of neighbors_4,
\* FIFO queue.
RECURSIVE RefDiscover(_, _, _, _)
RefDiscover(m, st, ns, k) ==
    IF k > Len(ns) THEN st
    ELSE IF At(m, ns[k]) \in {Empty, Destination} /\ ns[k] \notin DOMAIN st.parents
         THEN RefDiscover(m, [st EXCEPT !.parents = insert(st.parents, ns[k], Some(st.cur)),
                                        !.q = Append(st.q, ns[k])], ns, k + 1)
         ELSE RefDiscover(m, st, ns, k + 1)

RECURSIVE RefLoop(_, _)
RefLoop(m, st) ==
    IF At(m, st.cur) = Destination THEN st
    ELSE LET st1 == RefDiscover(m, st, neighbors_4(m, st.cur), 1)
         IN  IF st1.q = <<>> THEN [st1 EXCEPT !.panic = TRUE]
             ELSE RefLoop(m, [st1 EXCEPT !.cur = Head(st1.q), !.q = Tail(st1.q)])

RECURSIVE RefBack(_, _, _)
RefBack(parents, cur, prev) ==
    IF parents[cur] = None THEN prev ELSE RefBack(parents, parents[cur][1], cur)

\* The next step of the reference search (a Destination is reachable).
RefStep(m, s) ==
    LET st == RefLoop(m, [parents |-> insert(<<>>, s, None), q |-> <<>>,
                          cur |-> s, panic |-> FALSE])
    IN  RefBack(st.parents, st.cur, st.cur)

\* C2: wherever a Destination is reachable, pf_search returns the next step
\* of the reference breadth-first search.
C2_TieBreakEquivalence ==
    \A i \in 1..Len(enemies) :
        Dist(map, enemies[i]) >= 0 =>
            pf_search(map, enemies[i]).pos = RefStep(map, enemies[i])

\* --------------------------------------------------------------------- C3
\* Every agent started on a cell that is not a Wall and from which a
\* Destination is reachable.
StartsWell ==
    \A i \in 1..Len(start) :
        At(map, start[i]) # Wall /\ Dist(map, start[i]) >= 0

\* C3: if every agent starts on an in-bounds cell that is not a Wall and from
\* which a Destination is reachable, then after any number of advance calls
\* every agent is in bounds and not on a Wall.
C3_AgentPositionInvariant ==
    StartsWell =>
        \A i \in 1..Len(enemies) :
            enemies[i] \in Cells(map) /\ At(map, enemies[i]) # Wall

\* Two agents that started well have both moved, the first one past a Wall
\* next to its start.
C3_Witness ==
    /\ Len(start) = 2
    /\ StartsWell
    /\ enemies[1] # start[1]
    /\ enemies[2] # start[2]
    /\ \E t \in Adjacent(map, start[1]) : At(map, t) = Wall

\* --------------------------------------------------------------------- C4
\* C4: where pos is not a Destination and a Destination is reachable,
\* pf_search returns a cell exactly one 4-directional hop from pos whose
\* square is Empty or Destination.
C4_SingleHop ==
    \A i \in 1..Len(enemies) :
        (At(map, enemies[i]) # Destination /\ Dist(map, enemies[i]) >= 1) =>
            LET r == pf_search(map, enemies[i])
            IN  /\ ~r.panic
                /\ r.pos \in Cells(map)
                /\ Hop(enemies[i], r.pos)
                /\ At(map, r.pos) \in {Empty, Destination}

\* An agent two or more hops from a Destination has made its first move,
\* onto an Empty cell one hop from its start.
C4_Witness ==
    /\ Len(start) = 1
    /\ At(map, start[1]) # Destination
    /\ Dist(map, start[1]) >= 2
    /\ Hop(start[1], enemies[1])
    /\ At(map, enemies[1]) = Empty

\* --------------------------------------------------------------------- C5
\* C5: on a Destination cell pf_search returns that cell, and advance leaves
\* an agent that stands on a Destination where it is.
C5_IdempotentAtGoal ==
    \A i \in 1..Len(enemies) :
        At(map, enemies[i]) = Destination =>
            /\ pf_search(map, enemies[i]) = [panic |-> FALSE, pos |-> enemies[i]]
            /\ advance(map, enemies).enemies[i] = enemies[i]

\* An agent has walked onto a Destination that has an Empty neighbour and a
\* second Destination next to it.
C5_Witness ==
    /\ enemies[1] # start[1]
    /\ At(map, enemies[1]) = Destination
    /\ \E t \in Adjacent(map, enemies[1]) : At(map, t) = Empty
    /\ \E t \in Adjacent(map, enemies[1]) : At(map, t) = Destination

\* --------------------------------------------------------------------- C6
\* C6: where no Destination is reachable from an agent's cell, pf_search ends
\* in the error outcome (the panic of unwrap() on the exhausted queue), and
\* so does advance, with that agent's position unchanged.
C6_Unreachable ==
    \A i \in 1..Len(enemies) :
        Dist(map, enemies[i]) = Unreachable =>
            /\ pf_search(map, enemies[i]).panic
            /\ advance(map, enemies).panic
            /\ advance(map, enemies).enemies[i] = enemies[i]

\* advance has failed for an agent on an Empty cell with two or more
\* neighbours, all of them Walls; the agent is where it started.
C6_Witness ==
    /\ panicked
    /\ Len(enemies) = 1
    /\ enemies = start
    /\ At(map, enemies[1]) = Empty
    /\ Cardinality(Adjacent(map, enemies[1])) >= 2
    /\ \A t \in Adjacent(map, enemies[1]) : At(map, t) = Wall

\* --------------------------------------------------------------------- C7
\* C7: in one advance call every agent that has a reachable Destination makes
\* its step, whether or not another agent has none.
C7_ErrorIsolation ==
    [][\A i \in 1..Len(enemies) :
          Dist(map, enemies[i]) >= 0 =>
              enemies'[i] = pf_search(map, enemies[i]).pos]_vars

\* --------------------------------------------------------------------- C8
\* C8: pf_random returns pos or an in-bounds 4-neighbour of pos whose square
\* is Empty, and it returns pos exactly when pos has no Empty 4-neighbour.
C8_RandomContainment ==
    \A i \in 1..Len(enemies) :
        LET p == enemies[i]
        IN  /\ pf_random(map, p) # {}
            /\ \A t \in pf_random(map, p) :
                  t = p \/ (t \in Cells(map) /\ Hop(p, t) /\ At(map, t) = Empty)
            /\ p \in pf_random(map, p)
                  <=> ~(\E t \in Adjacent(map, p) : At(map, t) = Empty)

\* A random walker has stepped onto an Empty cell one hop from its start,
\* which also has a Destination and a SpawnPoint next to it.
C8_Witness ==
    /\ Len(start) = 1
    /\ Hop(start[1], enemies[1])
    /\ At(map, enemies[1]) = Empty
    /\ \E t \in Adjacent(map, start[1]) : At(map, t) = Destination
    /\ \E t \in Adjacent(map, start[1]) : At(map, t) = SpawnPoint

\* --------------------------------------------------------------------- C9
\* C9: one advance call moves every agent as it would move it in a game in
\* which it is the only agent (so, by induction, after any sequence of calls
\* an agent's position depends on the grid and its own start alone).
C9_AgentIndependence ==
    \A i \in 1..Len(enemies) :
        advance(map, enemies).enemies[i] = advance(map, <<enemies[i]>>).enemies[1]

\* -------------------------------------------------------------------- C10
\* C10: on the scenario map a single agent started at (0, 0) is never on a
\* Wall, advance never fails, and from some tick on the agent is on the
\* Destination (2, 1) for good.
C10_EndToEnd ==
    (map = E2EMap /\ enemies = <<<<0, 0>>>>) =>
        /\ [](At(map, enemies[1]) # Wall /\ ~panicked)
        /\ <>[](enemies = <<<<2, 1>>>>)

\* The agent of the scenario, started at (0, 0), stands on (2, 1).
C10_Witness ==
    /\ map = E2EMap
    /\ start = <<<<0, 0>>>>
    /\ enemies = <<<<2, 1>>>>

\* -------------------------------------------------------------------- C11
\* The positions that bound the lines of a description: before it, after
\* it, and its newlines.
Breaks(str) == {0, Len(str) + 1} \cup {k \in 1..Len(str) : str[k] = "\n"}

\* The non-empty lines: the pairs <<a, b>> of consecutive breaks with a
\* character between them.
Segments(str) ==
    {seg \in Breaks(str) \X Breaks(str) :
        /\ seg[1] + 1 < seg[2]
        /\ ~(\E c \in Breaks(str) : seg[1] < c /\ c < seg[2])}

\* The row of a non-empty line: the number of non-empty lines before it.
RowOf(str, seg) == Cardinality({t \in Segments(str) : t[1] < seg[1]})

\* The length of the longest line.
Longest(str) ==
    CHOOSE n \in 0..Len(str) :
        /\ \A seg \in Segments(str) : seg[2] - seg[1] - 1 <= n
        /\ \E seg \in Segments(str) : seg[2] - seg[1] - 1 = n

ClassOf(c) == [k \in {" ", "#", "^", "$"} |->
                 IF k = " " THEN "Empty" ELSE IF k = "#" THEN "Wall"
                 ELSE IF k = "^" THEN "SpawnPoint" ELSE "Destination"][c]

\* C11: Map::new of a description with a non-empty line builds a grid with
\* one row for each non-empty line, every row as long as the longest line;
\* cell (x, y) holds the class of character x of non-empty line y, and Empty
\* past the end of the line.
C11_GridConstruction ==
    (pc = "loop" /\ Segments(desc) # {}) =>
        /\ nrows(map) = Cardinality(Segments(desc))
        /\ \A y \in 1..nrows(map) : Len(map[y]) = Longest(desc)
        /\ \A seg \in Segments(desc) :
              \A x \in 0..(Longest(desc) - 1) :
                  At(map, <<x, RowOf(desc, seg)>>) =
                      IF x < seg[2] - seg[1] - 1
                      THEN ClassOf(desc[seg[1] + 1 + x])
                      ELSE Empty

\* Map::new has built the grid of "\n#^\n$": two rows, the second padded.
C11_Witness ==
    /\ pc = "loop"
    /\ desc = <<"\n", "#", "^", "\n", "$">>
    /\ map = <<<<Wall, SpawnPoint>>, <<Destination, Empty>>>>

\* -------------------------------------------------------------------- C12
\* C12: Map::new of a description without a non-empty line fails (the
\* process ends with the error) and builds no grid.
C12_EmptyMapRejected ==
    (pc # "new" /\ Segments(desc) = {}) => (panicked /\ map = <<>>)

\* -------------------------------------------------------------------- C13
\* C13: for every cell (x, y) of the grid, neighbors_4 yields the cells of
\* the grid among (x, y+1), (x+1, y), (x-1, y), (x, y-1), in that order and
\* each once; it yields no position outside the grid.
C13_Neighbors4 ==
    \A p \in Cells(map) :
        LET around == << <<p[1], p[2] + 1>>, <<p[1] + 1, p[2]>>,
                         <<p[1] - 1, p[2]>>, <<p[1], p[2] - 1>> >>
        IN  /\ neighbors_4(map, p) =
                   SelectSeq(around, LAMBDA t : t \in Cells(map))
            /\ Range(neighbors_4(map, p)) \subseteq Cells(map)

\* The walker went down from the centre of the 3 x 3 grid to the bottom
\* row, where neighbors_4 yields right, left and up only.
C13_Witness ==
    /\ ncols(map) = 3 /\ nrows(map) = 3
    /\ start = << <<1, 1>> >>
    /\ enemies = << <<1, 2>> >>
    /\ neighbors_4(map, enemies[1]) = << <<2, 2>>, <<0, 2>>, <<1, 1>> >>

\* -------------------------------------------------------------------- C14
\* The eight cells around p.
Surrounding(p) ==
    {<<p[1] + dx, p[2] + dy>> : dx \in {0 - 1, 0, 1}, dy \in {0 - 1, 0, 1}}
        \ {p}

\* C14: for every cell with its eight surrounding cells in the grid,
\* neighbors_8 yields these eight cells, each exactly once.
C14_Neighbors8 ==
    \A p \in Cells(map) :
        Surrounding(p) \subseteq Cells(map) =>
            LET n == neighbors_8(map, p)
            IN  /\ Range(n) = Surrounding(p)
                /\ \A t \in Surrounding(p) :
                      Cardinality({k \in 1..Len(n) : n[k] = t}) = 1

\* -------------------------------------------------------------------- C15
\* C15: in_bounds is true of exactly the positions that index a cell of
\* the grid, 0 <= x < w and 0 <= y < h, for the positions up to Margin
\* outside the grid on every side (negative coordinates included); so it
\* is true of column 0 and of row 0.
C15_InBounds ==
    /\ \A x \in (0 - Margin)..(ncols(map) + Margin) :
          \A y \in (0 - Margin)..(nrows(map) + Margin) :
              in_bounds(map, <<x, y>>) <=>
                  /\ 0 <= x /\ x < ncols(map)
                  /\ 0 <= y /\ y < nrows(map)
    /\ \A p \in Cells(map) : in_bounds(map, p)

\* The walker stepped into the corner (0, 0), which is in bounds, while
\* the positions left of it and above it are not.
C15_Witness ==
    /\ enemies = << <<0, 0>> >>
    /\ start # enemies
    /\ in_bounds(map, <<0, 0>>)
    /\ ~in_bounds(map, <<0 - 1, 0>>)
    /\ ~in_bounds(map, <<0, 0 - 1>>)

\* -------------------------------------------------------------------- C16
\* C16: while pf_search runs, its queue never holds two entries for the
\* same cell (a cell is appended at most once).
C16_VisitOnce ==
    search # None =>
        \A i, j \in 1..Len(search[1].st.q) :
            i # j => search[1].st.q[i][1] # search[1].st.q[j][1]

\* -------------------------------------------------------------------- C17
\* C17: one advance call gives every agent the step of its own search,
\* each once, and leaves the grid, the number and the order of the agents
\* as they were; with every agent on a Destination it changes nothing.
C17_AdvanceFrame ==
    [][/\ map' = map
       /\ Len(enemies') = Len(enemies)
       /\ \A i \in 1..Len(enemies) :
             enemies'[i] = pf_search(map, enemies[i]).pos
       /\ (\A i \in 1..Len(enemies) : At(map, enemies[i]) = Destination)
             => (enemies' = enemies /\ panicked' = panicked)]_vars

\* -------------------------------------------------------------------- C18
\* C18: in the loop a Tick makes exactly one advance call; a key other
\* than 'q' leaves the agents and the grid as they are; 'q' ends the loop
\* without an advance, and nothing happens after it; the agents change on
\* a Tick only.
C18_EventLoop ==
    [][/\ pc = "done" => FALSE
       /\ pc = "loop" =>
            /\ map' = map
            /\ event' = <<"Tick">> =>
                  /\ enemies' = advance(map, enemies).enemies
                  /\ ticks' = ticks + 1
                  /\ pc' = "loop"
            /\ event' # <<"Tick">> =>
                  /\ event'[1] = "Input"
                  /\ enemies' = enemies
                  /\ ticks' = ticks
                  /\ pc' = IF event'[2] = "q" THEN "done" ELSE "loop"
            /\ enemies' # enemies => event' = <<"Tick">>]_vars

\* After two ticks and some other key, 'q' has ended the loop with the
\* agents where the second tick left them.
C18_Witness ==
    /\ pc = "done"
    /\ event = <<"Input", "q">>
    /\ ticks = 2
    /\ enemies = << <<3, 2>>, <<4, 3>> >>

\* -------------------------------------------------------------------- C19
\* C19: on the built-in MAP (23 columns, 7 rows) with the agents started
\* at (3, 0) and (3, 2), the second agent is on the Destination (6, 6)
\* from tick 7 on and not before, the first from tick 9 on and not before;
\* on (6, 6) advance leaves them there; no advance fails and no agent comes
\* to the Destination (11, 6).
C19_BuiltInScenario ==
    pc # "new" =>
        /\ ncols(map) = 23 /\ nrows(map) = 7
        /\ At(map, <<6, 6>>) = Destination /\ At(map, <<11, 6>>) = Destination
        /\ start = << <<3, 0>>, <<3, 2>> >>
        /\ ~panicked
        /\ enemies[2] = <<6, 6>> <=> ticks >= 7
        /\ enemies[1] = <<6, 6>> <=> ticks >= 9
        /\ \A i \in 1..Len(enemies) : enemies[i] # <<11, 6>>
        /\ enemies = << <<6, 6>>, <<6, 6>> >> =>
              advance(map, enemies) = [enemies |-> enemies, panic |-> FALSE]

\* Both agents stand on (6, 6) after the ninth tick.
C19_Witness ==
    /\ ticks = 9
    /\ event = <<"Tick">>
    /\ enemies = << <<6, 6>>, <<6, 6>> >>

\* -------------------------------------------------------------------- C20
\* Following the predecessors from c comes to a key without predecessor in
\* at most n hops.
RECURSIVE Climbs(_, _, _)
Climbs(parents, c, n) ==
    IF parents[c] = None THEN TRUE
    ELSE IF n = 0 \/ parents[c][1] \notin DOMAIN parents THEN FALSE
    ELSE Climbs(parents, parents[c][1], n - 1)

\* The predecessor mapping of a search from s is well-founded.
WellFounded(parents, s) ==
    \A c \in DOMAIN parents :
        /\ c = s => parents[c] = None
        /\ c # s => /\ parents[c] # None
                    /\ parents[c][1] \in DOMAIN parents
                    /\ Hop(parents[c][1], c)
        /\ Climbs(parents, c, Cardinality(DOMAIN parents))

\* The mapping at every step of the search, and the one first_move gets
\* when the loop has ended on a Destination.
ChainWellFounded ==
    search # None =>
        LET st == search[1].st
        IN  /\ WellFounded(st.parents, enemies[1])
            /\ (search[1].at = "while" /\ ~st.panic
                    /\ At(map, st.cur) = Destination) =>
                   WellFounded(insert(st.parents, st.cur, st.parent),
                               enemies[1])

\* C20: a running pf_search ends, by reaching a Destination or by
\* exhausting the queue; at every step of it every key of the predecessor
\* mapping but the start maps to a 4-adjacent key, the start maps to none,
\* and the predecessors lead from every key to the start without a cycle,
\* so that first_move terminates.
C20_Termination ==
    /\ []ChainWellFounded
    /\ (search # None) ~> (search = None)

\* The loop has ended on a Destination two or more hops from the start, with
\* a mapping of two or more keys.
C20_Witness ==
    /\ search # None
    /\ search[1].at = "while"
    /\ ~search[1].st.panic
    /\ At(map, search[1].st.cur) = Destination
    /\ Cardinality(DOMAIN search[1].st.parents) >= 2
    /\ search[1].st.parent # None
    /\ search[1].st.parents[search[1].st.parent[1]] # None

====
